---- MODULE Spec2Model ----
(***************************************************************************)
(* Model of druid-shell/examples/accesskit.rs: the accessibility example.  *)
(* HelloState holds the window size, the logical focus target and the      *)
(* window-focused flag; HelloHandler's callbacks mutate it and hand        *)
(* TreeUpdate payloads to the window handle.                               *)
(***************************************************************************)
EXTENDS Integers, Sequences, FiniteSets, TLC

VARIABLES size, focus, is_window_focused, update, handled, event, registered, tabs,
          prev_kind, last_focus_event, sink_nodes, sink_focus

vars == <<size, focus, is_window_focused, update, handled, event, registered, tabs,
          prev_kind, last_focus_event, sink_nodes, sink_focus>>

(* ---------------------------------------------------------------- bounds *)
\* window dimensions range over 0..MaxDim
MaxDim == 1
\* longest run of Tab presses counted from the initial state
MaxTabs == 4
\* node identities an action request may name: 1..MaxTarget
MaxTarget == 4

(* ------------------------------------------------------------- constants *)
WINDOW_TITLE == "Hello world"
WINDOW_ID == 1
BUTTON_1_ID == 2
BUTTON_2_ID == 3
INITIAL_FOCUS == BUTTON_1_ID

(* ------------------------------------------------- Option<T> and helpers *)
None == << >>
Some(x) == << x >>

\* KbKey values the handler can receive
KbTab == [tag |-> "Tab", ch |-> ""]
KbEnter == [tag |-> "Enter", ch |-> ""]
KbEscape == [tag |-> "Escape", ch |-> ""]
KbCharacter(c) == [tag |-> "Character", ch |-> c]
Keys == {KbTab, KbEnter, KbEscape, KbCharacter(" "), KbCharacter("a")}

\* kurbo::Size values
Sizes == [width : 0..MaxDim, height : 0..MaxDim]
SizeDefault == [width |-> 0, height |-> 0]

\* accesskit::ActionRequest values
Actions == {"Focus", "Default"}
Targets == 1..MaxTarget
Datas == {None, Some("Value")}
Requests == [action : Actions, target : Targets, data : Datas]

(* ------------------------------------------------------------ tree nodes *)
\* Node::new(id, role): every other field at its default
NodeNew(id, role) ==
  [id |-> id, role |-> role, name |-> None, focusable |-> FALSE, children |-> << >>]

\* make_button without the focusable flag
make_button_unfocusable(id, name) ==
  [NodeNew(id, "Button") EXCEPT !.name = Some(name)]

make_button(id, name) ==
  [NodeNew(id, "Button") EXCEPT !.name = Some(name), !.focusable = TRUE]

TreeNew(id, root, encoding) == [id |-> id, root |-> root, encoding |-> encoding]

(* ------------------------------------------------------------ HelloState *)
HelloStateNew ==
  [size |-> SizeDefault, focus |-> INITIAL_FOCUS, is_window_focused |-> FALSE]

\* get_initial_tree declaring the focus whatever the window-focused flag
get_initial_tree_always_focus(self) ==
  LET root == [NodeNew(WINDOW_ID, "Window") EXCEPT
                 !.children = <<BUTTON_1_ID, BUTTON_2_ID>>,
                 !.name = Some(WINDOW_TITLE)]
      button_1 == make_button(BUTTON_1_ID, "Button 1")
      button_2 == make_button(BUTTON_2_ID, "Button 2")
  IN [clear |-> None,
      nodes |-> <<root, button_1, button_2>>,
      tree |-> Some(TreeNew("test", WINDOW_ID, "Utf8")),
      focus |-> Some(self.focus)]

get_initial_tree(self) ==
  LET root == [NodeNew(WINDOW_ID, "Window") EXCEPT
                 !.children = <<BUTTON_1_ID, BUTTON_2_ID>>,
                 !.name = Some(WINDOW_TITLE)]
      button_1 == make_button(BUTTON_1_ID, "Button 1")
      button_2 == make_button(BUTTON_2_ID, "Button 2")
  IN [clear |-> None,
      nodes |-> <<root, button_1, button_2>>,
      tree |-> Some(TreeNew("test", WINDOW_ID, "Utf8")),
      focus |-> IF self.is_window_focused THEN Some(self.focus) ELSE None]

(* ---------------------------------------------------------- WindowHandle *)
\* The handle passes the payload it is given on to the accessibility sink.
update_accesskit(u) == Some(u)
update_accesskit_if_active(u) == Some(u)

(* ---------------------------------------------------------- HelloHandler *)
\* Every handler maps the state before the call to the state after it, the
\* payload handed to the window handle (None when there is none) and, for
\* key_down, the returned flag.
\* update_focus deciding the focus field from the flag as it was stored
\* before the call
update_focus_stale_flag(state, iwf) ==
  LET state1 == [state EXCEPT !.is_window_focused = iwf]
  IN [state |-> state1,
      update |-> update_accesskit_if_active(
                   [clear |-> None,
                    nodes |-> << >>,
                    tree |-> None,
                    focus |-> IF state.is_window_focused
                              THEN Some(state1.focus) ELSE None]),
      ret |-> FALSE]

\* update_focus declaring the tree again, as the initial snapshot does
update_focus_with_tree(state, iwf) ==
  LET state1 == [state EXCEPT !.is_window_focused = iwf]
  IN [state |-> state1,
      update |-> update_accesskit_if_active(
                   [clear |-> None,
                    nodes |-> << >>,
                    tree |-> Some(TreeNew("test", WINDOW_ID, "Utf8")),
                    focus |-> IF iwf THEN Some(state1.focus) ELSE None]),
      ret |-> FALSE]

\* update_focus rebuilding the focused button's node with its default name
update_focus_rebuild(state, iwf) ==
  LET state1 == [state EXCEPT !.is_window_focused = iwf]
  IN [state |-> state1,
      update |-> update_accesskit_if_active(
                   [clear |-> None,
                    nodes |-> <<IF state1.focus = BUTTON_1_ID
                                THEN make_button(BUTTON_1_ID, "Button 1")
                                ELSE make_button(BUTTON_2_ID, "Button 2")>>,
                    tree |-> None,
                    focus |-> IF iwf THEN Some(state1.focus) ELSE None]),
      ret |-> FALSE]

update_focus(state, iwf) ==
  LET state1 == [state EXCEPT !.is_window_focused = iwf]
  IN [state |-> state1,
      update |-> update_accesskit_if_active(
                   [clear |-> None,
                    nodes |-> << >>,
                    tree |-> None,
                    focus |-> IF iwf THEN Some(state1.focus) ELSE None]),
      ret |-> FALSE]

\* key_down whose Tab branch always moves to the second button
key_down_no_toggle(state, key) ==
  IF key = KbTab
  THEN LET state1 == [state EXCEPT !.focus = BUTTON_2_ID]
       IN [update_focus(state1, TRUE) EXCEPT !.ret = TRUE]
  ELSE IF key = KbEnter \/ key = KbCharacter(" ")
  THEN LET f == state.focus
           node == IF f = BUTTON_1_ID
                   THEN make_button(BUTTON_1_ID, "You pressed button 1")
                   ELSE make_button(BUTTON_2_ID, "You pressed button 2")
       IN [state |-> state,
           update |-> update_accesskit([clear |-> None,
                                        nodes |-> <<node>>,
                                        tree |-> None,
                                        focus |-> Some(f)]),
           ret |-> TRUE]
  ELSE [state |-> state, update |-> None, ret |-> FALSE]

\* key_down whose activation branch rebuilds the other button's node
key_down_swapped(state, key) ==
  IF key = KbTab
  THEN LET state1 == [state EXCEPT !.focus = IF state.focus = BUTTON_1_ID
                                              THEN BUTTON_2_ID
                                              ELSE BUTTON_1_ID]
       IN [update_focus(state1, TRUE) EXCEPT !.ret = TRUE]
  ELSE IF key = KbEnter \/ key = KbCharacter(" ")
  THEN LET f == state.focus
           node == IF f = BUTTON_1_ID
                   THEN make_button(BUTTON_2_ID, "You pressed button 2")
                   ELSE make_button(BUTTON_1_ID, "You pressed button 1")
       IN [state |-> state,
           update |-> update_accesskit([clear |-> None,
                                        nodes |-> <<node>>,
                                        tree |-> None,
                                        focus |-> Some(f)]),
           ret |-> TRUE]
  ELSE [state |-> state, update |-> None, ret |-> FALSE]

\* key_down whose Tab branch advances the identity without wrapping around
key_down_increment(state, key) ==
  IF key = KbTab
  THEN LET state1 == [state EXCEPT !.focus = state.focus + 1]
       IN [update_focus(state1, TRUE) EXCEPT !.ret = TRUE]
  ELSE IF key = KbEnter \/ key = KbCharacter(" ")
  THEN LET f == state.focus
           node == IF f = BUTTON_1_ID
                   THEN make_button(BUTTON_1_ID, "You pressed button 1")
                   ELSE make_button(BUTTON_2_ID, "You pressed button 2")
       IN [state |-> state,
           update |-> update_accesskit([clear |-> None,
                                        nodes |-> <<node>>,
                                        tree |-> None,
                                        focus |-> Some(f)]),
           ret |-> TRUE]
  ELSE [state |-> state, update |-> None, ret |-> FALSE]

\* key_down reporting every key as handled
key_down_handles_all(state, key) ==
  IF key = KbTab
  THEN LET state1 == [state EXCEPT !.focus = IF state.focus = BUTTON_1_ID
                                              THEN BUTTON_2_ID
                                              ELSE BUTTON_1_ID]
       IN [update_focus(state1, TRUE) EXCEPT !.ret = TRUE]
  ELSE IF key = KbEnter \/ key = KbCharacter(" ")
  THEN LET f == state.focus
           node == IF f = BUTTON_1_ID
                   THEN make_button(BUTTON_1_ID, "You pressed button 1")
                   ELSE make_button(BUTTON_2_ID, "You pressed button 2")
       IN [state |-> state,
           update |-> update_accesskit([clear |-> None,
                                        nodes |-> <<node>>,
                                        tree |-> None,
                                        focus |-> Some(f)]),
           ret |-> TRUE]
  ELSE [state |-> state, update |-> None, ret |-> TRUE]

key_down(state, key) ==
  IF key = KbTab
  THEN LET state1 == [state EXCEPT !.focus = IF state.focus = BUTTON_1_ID
                                              THEN BUTTON_2_ID
                                              ELSE BUTTON_1_ID]
       IN [update_focus(state1, TRUE) EXCEPT !.ret = TRUE]
  ELSE IF key = KbEnter \/ key = KbCharacter(" ")
  THEN LET f == state.focus
           node == IF f = BUTTON_1_ID
                   THEN make_button(BUTTON_1_ID, "You pressed button 1")
                   ELSE make_button(BUTTON_2_ID, "You pressed button 2")
       IN [state |-> state,
           update |-> update_accesskit([clear |-> None,
                                        nodes |-> <<node>>,
                                        tree |-> None,
                                        focus |-> Some(f)]),
           ret |-> TRUE]
  ELSE [state |-> state, update |-> None, ret |-> FALSE]

\* size dropping the new dimensions
size_noop(state, sz) ==
  [state |-> state, update |-> None, ret |-> FALSE]

size_(state, sz) ==
  [state |-> [state EXCEPT !.size = sz], update |-> None, ret |-> FALSE]

\* got_focus re-announcing the focus without setting the flag
got_focus_keep_flag(state) == update_focus(state, state.is_window_focused)

\* got_focus flipping the flag
got_focus_toggle_flag(state) == update_focus(state, ~state.is_window_focused)

got_focus(state) == update_focus(state, TRUE)

\* lost_focus sending the focus target back to the initial one
lost_focus_reset(state) ==
  update_focus([state EXCEPT !.focus = INITIAL_FOCUS], FALSE)

lost_focus(state) == update_focus(state, FALSE)

\* accesskit_action without the check of the target
accesskit_action_any_target(state, request) ==
  IF request.action = "Focus" /\ request.data = None
  THEN LET state1 == [state EXCEPT !.focus = request.target]
       IN update_focus(state1, state1.is_window_focused)
  ELSE [state |-> state, update |-> None, ret |-> FALSE]

\* accesskit_action without the check of the data
accesskit_action_any_data(state, request) ==
  IF request.action = "Focus"
  THEN IF request.target = BUTTON_1_ID \/ request.target = BUTTON_2_ID
       THEN LET state1 == [state EXCEPT !.focus = request.target]
            IN update_focus(state1, state1.is_window_focused)
       ELSE [state |-> state, update |-> None, ret |-> FALSE]
  ELSE [state |-> state, update |-> None, ret |-> FALSE]

\* accesskit_action announcing the focus as the Tab branch does
accesskit_action_force_focused(state, request) ==
  IF request.action = "Focus" /\ request.data = None
  THEN IF request.target = BUTTON_1_ID \/ request.target = BUTTON_2_ID
       THEN LET state1 == [state EXCEPT !.focus = request.target]
            IN update_focus(state1, TRUE)
       ELSE [state |-> state, update |-> None, ret |-> FALSE]
  ELSE [state |-> state, update |-> None, ret |-> FALSE]

accesskit_action(state, request) ==
  IF request.action = "Focus" /\ request.data = None
  THEN IF request.target = BUTTON_1_ID \/ request.target = BUTTON_2_ID
       THEN LET state1 == [state EXCEPT !.focus = request.target]
            IN update_focus(state1, state1.is_window_focused)
       ELSE [state |-> state, update |-> None, ret |-> FALSE]
  ELSE [state |-> state, update |-> None, ret |-> FALSE]

(* ------------------------------------------------------------ the system *)
State == [size |-> size, focus |-> focus, is_window_focused |-> is_window_focused]

\* the request is one accesskit_action honours
Accepted(request) ==
  /\ request.action = "Focus"
  /\ request.data = None
  /\ request.target \in {BUTTON_1_ID, BUTTON_2_ID}

\* tabs counts the Tab presses since construction as long as no accepted
\* action request has moved the focus in between; Broken afterwards.
Broken == 0 - 1

\* The accessibility sink keeps the nodes it was sent, by identity, and the
\* focus last declared to it.  A node of an update replaces the node of the
\* same identity; the sink has a tree to update once the initial snapshot
\* has been registered.
NodeIds(nodes) == {nodes[i].id : i \in DOMAIN nodes}

SinkNodesAfter(old, u) ==
  [id \in (DOMAIN old) \cup NodeIds(u.nodes) |->
     IF id \in NodeIds(u.nodes)
     THEN u.nodes[CHOOSE i \in DOMAIN u.nodes :
                    /\ u.nodes[i].id = id
                    /\ \A j \in DOMAIN u.nodes : j > i => u.nodes[j].id # id]
     ELSE old[id]]

Deliver(active, u) ==
  /\ sink_nodes' = IF active /\ u # None
                   THEN SinkNodesAfter(sink_nodes, u[1]) ELSE sink_nodes
  /\ sink_focus' = IF active /\ u # None THEN u[1].focus ELSE sink_focus

\* prev_kind is the handler called before the last one; last_focus_event is
\* the last window-focus notification delivered ("none" before the first).
History(kind) ==
  /\ prev_kind' = event.kind
  /\ last_focus_event' = IF kind \in {"got_focus", "lost_focus"}
                         THEN kind ELSE last_focus_event

Apply(r) ==
  /\ size' = r.state.size
  /\ focus' = r.state.focus
  /\ is_window_focused' = r.state.is_window_focused
  /\ update' = r.update
  /\ handled' = r.ret
  /\ Deliver(registered, r.update)

Init ==
  /\ size = HelloStateNew.size
  /\ focus = HelloStateNew.focus
  /\ is_window_focused = HelloStateNew.is_window_focused
  /\ update = None
  /\ handled = FALSE
  /\ event = [kind |-> "new"]
  /\ registered = FALSE
  /\ tabs = 0
  /\ prev_kind = "new"
  /\ last_focus_event = "none"
  /\ sink_nodes = << >>
  /\ sink_focus = None

GetInitialTree ==
  /\ ~registered
  /\ registered' = TRUE
  /\ update' = Some(get_initial_tree(State))
  /\ event' = [kind |-> "get_initial_tree"]
  /\ Deliver(TRUE, update')
  /\ History("get_initial_tree")
  /\ UNCHANGED <<size, focus, is_window_focused, handled, tabs>>

KeyDown ==
  \E key \in Keys :
    /\ key = KbTab => tabs < MaxTabs
    /\ Apply(key_down(State, key))
    /\ event' = [kind |-> "key_down", key |-> key]
    /\ History("key_down")
    /\ tabs' = IF key = KbTab /\ tabs # Broken THEN tabs + 1 ELSE tabs
    /\ UNCHANGED registered

SizeEvent ==
  \E sz \in Sizes :
    /\ Apply(size_(State, sz))
    /\ event' = [kind |-> "size", size |-> sz]
    /\ History("size")
    /\ UNCHANGED <<registered, tabs>>

GotFocus ==
  /\ Apply(got_focus(State))
  /\ event' = [kind |-> "got_focus"]
  /\ History("got_focus")
  /\ UNCHANGED <<registered, tabs>>

LostFocus ==
  /\ Apply(lost_focus(State))
  /\ event' = [kind |-> "lost_focus"]
  /\ History("lost_focus")
  /\ UNCHANGED <<registered, tabs>>

AccesskitAction ==
  \E request \in Requests :
    /\ Apply(accesskit_action(State, request))
    /\ event' = [kind |-> "accesskit_action", request |-> request]
    /\ History("accesskit_action")
    /\ tabs' = IF Accepted(request) THEN Broken ELSE tabs
    /\ UNCHANGED registered

Next ==
  \/ GetInitialTree
  \/ KeyDown
  \/ SizeEvent
  \/ GotFocus
  \/ LostFocus
  \/ AccesskitAction

Spec == Init /\ [][Next]_vars

(* ------------------------------------------------------------ properties *)
Buttons == {BUTTON_1_ID, BUTTON_2_ID}

\* a payload with no node replacements, no clear marker and no tree
\* declaration, declaring focus f
FocusOnly(f) == [clear |-> None, nodes |-> << >>, tree |-> None, focus |-> f]

IsTab(e) == e.kind = "key_down" /\ e.key = KbTab
IsActivate(e) == e.kind = "key_down" /\ e.key \in {KbEnter, KbCharacter(" ")}
IsRequest(e) == e.kind = "accesskit_action"

PressedName(id) ==
  IF id = BUTTON_1_ID THEN "You pressed button 1" ELSE "You pressed button 2"

\* C1: in every reachable state the logical focus target is BUTTON_1_ID or
\* BUTTON_2_ID, never the window identity or any other value.
C1_FocusIsButton == focus \in Buttons

\* a request to focus the window node has been handled
C1_Witness ==
  /\ IsRequest(event)
  /\ event.request = [action |-> "Focus", target |-> WINDOW_ID, data |-> None]

\* C2: after n Tab presses from the initial state, with no other
\* focus-changing event in between, the focus target is Button 2 when n is
\* odd and Button 1 when n is even.
C2_TabAlternates ==
  tabs # Broken => focus = (IF tabs % 2 = 1 THEN BUTTON_2_ID ELSE BUTTON_1_ID)

C2_Witness == tabs = 3 /\ IsTab(event) /\ is_window_focused /\ focus = BUTTON_2_ID

\* C3: after window-focus-lost the emitted update declares focus "none",
\* carries no node replacements and no tree declaration, and the window is
\* marked not focused, whatever the state before.
C3_LostFocusNone ==
  event.kind = "lost_focus" =>
    /\ update = Some(FocusOnly(None))
    /\ ~is_window_focused

C3_Witness == event.kind = "lost_focus" /\ focus = BUTTON_2_ID /\ update # None

\* C4: after window-focus-gained the emitted update declares the current
\* logical focus target, one of the two buttons, carries no node
\* replacements, and the window is marked focused.
C4_GotFocusTarget ==
  event.kind = "got_focus" =>
    /\ update = Some(FocusOnly(Some(focus)))
    /\ focus \in Buttons
    /\ is_window_focused

C4_Witness ==
  event.kind = "got_focus" /\ focus = BUTTON_2_ID /\ update = Some(FocusOnly(Some(BUTTON_2_ID)))

\* C5: Enter or Space while button A holds the logical focus emits an update
\* with exactly one node, A's, named "You pressed button 1" or "You pressed
\* button 2" after A, and a focus declaration naming A.
C5_ActivateReplacesFocused ==
  [][IsActivate(event') =>
       /\ update' # None
       /\ Len(update'[1].nodes) = 1
       /\ update'[1].nodes[1].id = focus
       /\ update'[1].nodes[1].name = Some(PressedName(focus))
       /\ update'[1].nodes[1].role = "Button"
       /\ update'[1].focus = Some(focus)]_vars

C5_Witness ==
  /\ IsActivate(event)
  /\ focus = BUTTON_2_ID
  /\ update # None
  /\ update[1].nodes = <<make_button(BUTTON_2_ID, "You pressed button 2")>>

\* C6: an action request whose target is not one of the two buttons, or
\* which carries data, or whose kind is not "focus", emits no update and
\* changes neither the focus target, the window-focused flag nor the size.
C6_InvalidRequestIgnored ==
  [][(/\ IsRequest(event')
      /\ \/ event'.request.target \notin Buttons
         \/ event'.request.data # None
         \/ event'.request.action # "Focus")
     => /\ update' = None
        /\ UNCHANGED <<focus, is_window_focused, size>>]_vars

C6_Witness ==
  /\ IsRequest(event)
  /\ event.request = [action |-> "Focus", target |-> BUTTON_2_ID, data |-> Some("Value")]
  /\ focus = BUTTON_1_ID
  /\ update = None

\* C7: an accepted focus request sets the focus target to the requested
\* button, leaves the window-focused flag unchanged and emits a focus-only
\* update naming the requested button when the flag is set and "none" when
\* it is not.
C7_AcceptedRequestMovesFocus ==
  [][(IsRequest(event') /\ Accepted(event'.request)) =>
       /\ focus' = event'.request.target
       /\ is_window_focused' = is_window_focused
       /\ update' = Some(FocusOnly(IF is_window_focused
                                    THEN Some(event'.request.target)
                                    ELSE None))]_vars

C7_Witness ==
  /\ IsRequest(event)
  /\ Accepted(event.request)
  /\ event.request.target = BUTTON_2_ID
  /\ focus = BUTTON_2_ID
  /\ ~is_window_focused
  /\ update = Some(FocusOnly(None))

\* C8: a Tab key toggles the focus target and emits a focus-only update
\* whose focus names the new target when the window is focused and names no
\* button when the window is not focused.
C8_TabFocusConditioned ==
  [][IsTab(event') =>
       /\ focus' = (IF focus = BUTTON_1_ID THEN BUTTON_2_ID ELSE BUTTON_1_ID)
       /\ update' = Some(FocusOnly(IF is_window_focused THEN Some(focus') ELSE None))]_vars

\* C9: get_initial_tree yields, in whatever state it is called, three nodes
\* (window, Button 1, Button 2) and a tree declaration rooted at the window;
\* the buttons carry their default names and are focusable and the root's
\* children are [Button 1, Button 2].
C9_InitialTreeShape ==
  event.kind = "get_initial_tree" =>
    /\ update # None
    /\ update[1].clear = None
    /\ Len(update[1].nodes) = 3
    /\ update[1].tree # None
    /\ update[1].tree[1].root = WINDOW_ID
    /\ update[1].nodes[1].id = WINDOW_ID
    /\ update[1].nodes[1].role = "Window"
    /\ update[1].nodes[1].children = <<BUTTON_1_ID, BUTTON_2_ID>>
    /\ update[1].nodes[2] = [id |-> BUTTON_1_ID, role |-> "Button",
                             name |-> Some("Button 1"), focusable |-> TRUE,
                             children |-> << >>]
    /\ update[1].nodes[3] = [id |-> BUTTON_2_ID, role |-> "Button",
                             name |-> Some("Button 2"), focusable |-> TRUE,
                             children |-> << >>]

C9_Witness ==
  /\ event.kind = "get_initial_tree"
  /\ focus = BUTTON_2_ID
  /\ is_window_focused
  /\ size # SizeDefault

\* C10: the initial snapshot declares the logical focus target exactly when
\* the window-focused flag is set at the moment it is built, and no focus
\* otherwise; a snapshot built before any event declares no focus.
C10_InitialTreeFocus ==
  [][event'.kind = "get_initial_tree" =>
       /\ update' # None
       /\ update'[1].focus = (IF is_window_focused THEN Some(focus) ELSE None)
       /\ event.kind = "new" => update'[1].focus = None]_vars

C10_Witness ==
  /\ event.kind = "get_initial_tree"
  /\ ~is_window_focused
  /\ tabs = 0
  /\ update # None
  /\ update[1].focus = None

\* handlers that emit incremental updates
HandlerKinds == {"key_down", "size", "got_focus", "lost_focus", "accesskit_action"}

\* C11: window-focus-gained twice in a row yields the same focus declaration
\* both times, and the state after the second call equals the state after
\* the first (focus target and window-focused flag unchanged).
C11_GotFocusIdempotent ==
  [][(event.kind = "got_focus" /\ event'.kind = "got_focus") =>
       /\ update' = update
       /\ update' # None
       /\ focus' = focus
       /\ is_window_focused' = is_window_focused
       /\ size' = size]_vars

C11_Witness ==
  /\ event.kind = "got_focus"
  /\ prev_kind = "got_focus"
  /\ focus = BUTTON_2_ID
  /\ update = Some(FocusOnly(Some(BUTTON_2_ID)))

\* C12: window-focus-gained and window-focus-lost leave the logical focus
\* target and the stored size unchanged.
C12_FocusEventsFrame ==
  [][event'.kind \in {"got_focus", "lost_focus"} =>
       /\ focus' = focus
       /\ size' = size]_vars

C12_Witness ==
  /\ event.kind = "lost_focus"
  /\ prev_kind = "got_focus"
  /\ focus = BUTTON_2_ID
  /\ size # SizeDefault

\* C13: a Tab key changes only the focus target and an activation key
\* changes no controller state: after either key the window-focused flag is
\* what it was before, also when the window is not focused.
C13_KeysKeepFlag ==
  [][(IsTab(event') \/ IsActivate(event')) =>
       /\ is_window_focused' = is_window_focused
       /\ size' = size
       /\ IsActivate(event') => focus' = focus]_vars

\* C14: the tree declaration is present only on the initial snapshot: every
\* update a handler emits has no tree field and no clear marker, and only
\* activation updates carry node replacements.
C14_TreeOnlyOnSnapshot ==
  update # None =>
    /\ update[1].clear = None
    /\ update[1].tree # None <=> event.kind = "get_initial_tree"
    /\ (event.kind \in HandlerKinds /\ update[1].nodes # << >>) => IsActivate(event)

C14_Witness ==
  /\ registered
  /\ IsRequest(event)
  /\ prev_kind = "key_down"
  /\ update = Some(FocusOnly(Some(BUTTON_2_ID)))

\* C15: every identity an update references as a replaced node, as a child
\* or as the focus is the identity of one of the three nodes of the initial
\* snapshot, whose identities are pairwise distinct; the sink's tree holds
\* exactly those nodes.
SnapshotIds == NodeIds(get_initial_tree(State).nodes)

C15_ReferenceIntegrity ==
  /\ Cardinality(SnapshotIds) = 3
  /\ Len(get_initial_tree(State).nodes) = 3
  /\ update # None =>
       /\ NodeIds(update[1].nodes) \subseteq SnapshotIds
       /\ \A i \in DOMAIN update[1].nodes :
            \A j \in DOMAIN update[1].nodes[i].children :
              update[1].nodes[i].children[j] \in SnapshotIds
       /\ update[1].focus # None => update[1].focus[1] \in SnapshotIds
  /\ registered =>
       /\ DOMAIN sink_nodes = SnapshotIds
       /\ sink_focus # None => sink_focus[1] \in SnapshotIds

C15_Witness ==
  /\ registered
  /\ IsTab(event)
  /\ tabs = 2
  /\ sink_focus = Some(BUTTON_1_ID)

\* C16: key_down reports the event as handled exactly for Tab, Enter and
\* Space; for any other key it emits no update and leaves the focus target,
\* the window-focused flag and the size unchanged.
C16_KeyHandled ==
  [][event'.kind = "key_down" =>
       /\ handled' = (event'.key \in {KbTab, KbEnter, KbCharacter(" ")})
       /\ event'.key \notin {KbTab, KbEnter, KbCharacter(" ")} =>
            /\ update' = None
            /\ UNCHANGED <<focus, is_window_focused, size>>]_vars

C16_Witness ==
  /\ event.kind = "key_down"
  /\ event.key = KbCharacter("a")
  /\ ~handled
  /\ update = None
  /\ is_window_focused

\* C17: a resize stores the new size and nothing else: no update is emitted
\* and the focus target and the window-focused flag are unchanged.
C17_SizeStoresOnly ==
  [][event'.kind = "size" =>
       /\ size' = event'.size
       /\ update' = None
       /\ UNCHANGED <<focus, is_window_focused, sink_nodes, sink_focus>>]_vars

C17_Witness ==
  /\ event.kind = "size"
  /\ size = [width |-> 1, height |-> 1]
  /\ focus = BUTTON_2_ID
  /\ is_window_focused

\* C18: after the initial snapshot the focus last declared to the sink is
\* the focus target when the window-focused flag is set and "none" when it
\* is not; between focus-lost and the next focus-gained no update declares a
\* button as focused.
C18_SinkFocusInSync ==
  /\ registered =>
       sink_focus = (IF is_window_focused THEN Some(focus) ELSE None)
  /\ (last_focus_event = "lost_focus" /\ update # None) =>
       update[1].focus = None

\* C19: the window-focused flag is set only if a focus-gained notification
\* has been delivered with no focus-lost notification after it.
C19_FlagFollowsFocusEvents ==
  is_window_focused => last_focus_event = "got_focus"

\* C20: in the sink's tree, once the initial snapshot is registered, no
\* update replaces the window node or its child list, a button whose name is
\* its pressed variant keeps it, and a button's node changes only by an
\* activation while that button holds the focus.
C20_PressedLabelsStable ==
  [][(registered /\ registered') =>
       /\ sink_nodes'[WINDOW_ID] = sink_nodes[WINDOW_ID]
       /\ sink_nodes'[WINDOW_ID].children = <<BUTTON_1_ID, BUTTON_2_ID>>
       /\ \A b \in Buttons :
            /\ sink_nodes[b].name = Some(PressedName(b)) =>
                 sink_nodes'[b] = sink_nodes[b]
            /\ sink_nodes'[b] # sink_nodes[b] =>
                 /\ IsActivate(event')
                 /\ b = focus
                 /\ sink_nodes'[b] = make_button(b, PressedName(b))]_vars

C20_Witness ==
  /\ registered
  /\ event.kind = "lost_focus"
  /\ sink_nodes[BUTTON_1_ID].name = Some("You pressed button 1")
  /\ sink_nodes[BUTTON_2_ID].name = Some("Button 2")
  /\ focus = BUTTON_2_ID

====
